---- MODULE Spec2Model ----
(***************************************************************************)
(* Model of the Lakers dashboard's API-backed cache (src/main.py) and of   *)
(* the uncached query of src/services/nba.py.                              *)
(*                                                                         *)
(* Time is counted in whole minutes: datetime.now() reads the variable     *)
(* now, and CACHE_DURATION = timedelta(minutes=5) is 5 ticks.  A request   *)
(* made with timeout=10 (seconds) lasts less than one minute, so the clock *)
(* advances by at most MaxWait ticks while it is in flight.                *)
(*                                                                         *)
(* Python values are records [t, items]: t is the Python type and items    *)
(* the elements of a list or tuple (for a dict: the values of its fields). *)
(***************************************************************************)
EXTENDS Integers, Sequences, FiniteSets, TLC

VARIABLES
    _cache,     \* main.py:43, a set of entries [key, data, timestamp]
    now,        \* the value datetime.now() returns
    call,       \* the invocation in progress, or the one that ended last
    fetched,    \* the keys whose entry was stored from a well-formed 200 answer
    threads,    \* SpecThreads: the invocation of each concurrent caller
    written,    \* SpecThreads: every (key, data, timestamp) a set_cache call wrote
    last,       \* SpecThreads: per key, what the set_cache that ran last wrote
    games,      \* SpecPage, SpecRecord: the raw game records upstream returned
    view        \* SpecPage, SpecRecord: what the consumers were handed

threadVars == <<threads, written, last>>
pageVars == <<games, view>>
vars == <<_cache, now, call, fetched, threadVars, pageVars>>

----------------------------------------------------------------------------
\* Bounds of the model

MaxTime == 6            \* the clock stops here
MaxWait == 1            \* ticks a request bounded by timeout=10 can last
MaxStreak == 2          \* consecutive failed fetches of a key that are counted

----------------------------------------------------------------------------
\* Configuration (main.py:32, main.py:44)

FIXED_TEAM_ID == 14
CACHE_DURATION == 5     \* timedelta(minutes=5)

----------------------------------------------------------------------------
\* Python values

None == [t |-> "None", items |-> <<>>]
PyList(s) == [t |-> "list", items |-> s]
PyTuple(s) == [t |-> "tuple", items |-> s]
PyDict(s) == [t |-> "dict", items |-> s]

\* bool(v), as `if stale_data:` evaluates it: None and empty containers are false
Truthy(v) == v.t # "None" /\ Len(v.items) > 0

\* what prev holds when the key had no entry
Absent == [t |-> "absent", items |-> <<>>]

----------------------------------------------------------------------------
\* Cache keys: the f-strings of main.py:102 and main.py:155

team_cache_key == "team_" \o ToString(FIXED_TEAM_ID)

\* mutant of games_cache_key: the three numbers are joined without separators
games_cache_key_unseparated(team_id, season, per_page) ==
    "games_" \o ToString(team_id) \o ToString(season) \o ToString(per_page)

games_cache_key(team_id, season, per_page) ==
    "games_" \o ToString(team_id) \o "_" \o ToString(season) \o "_" \o ToString(per_page)

\* the call the /team page makes: get_team_games(FIXED_TEAM_ID, season=2024,
\* per_page=25) (main.py:234)
Seasons == {2024}
PerPages == {25}

GamesKeys == {games_cache_key(FIXED_TEAM_ID, s, p) : s \in Seasons, p \in PerPages}
Keys == {team_cache_key} \cup GamesKeys

----------------------------------------------------------------------------
\* What upstream can answer

\* "data" of the /teams/14 body: a team object, one without "abbreviation", or null
TeamData == {PyDict(<<"Lakers", "Los Angeles", "LAL">>),
             PyDict(<<"Lakers", "LA", "LAL">>),
             PyDict(<<"Lakers", "LA">>),
             None}

\* "data" of the /games body: a list of games (here their ids), or null
GamesData == {PyList(<<"g1">>), PyList(<<"g1", "g2">>), PyList(<<>>), None}

\* a response body: not JSON at all, a JSON object without "data", or one with it
NoBody == [kind |-> "invalid_json", data |-> None]
Bodies(D) == {NoBody, [kind |-> "no_data", data |-> None]}
                 \cup {[kind |-> "data", data |-> d] : d \in D}

\* requests.get returns a response, or raises
Response(status, body) == [kind |-> "response", status_code |-> status, body |-> body]
ConnectionError == [kind |-> "exception", status_code |-> 0, body |-> NoBody]
TimeoutError == [kind |-> "timeout", status_code |-> 0, body |-> NoBody]

Responses(D) == {Response(200, b) : b \in Bodies(D)}
                    \cup {Response(429, NoBody), Response(500, NoBody)}

----------------------------------------------------------------------------
\* The record of an invocation.  outcome says what upstream did: "hit" (it
\* was not asked), "ok" (200 and the expected "data"), "malformed" (200 and
\* anything else), "status" (not 200), "network_error", "timeout".

NoCall ==
    [fn |-> "none", key |-> "", st |-> "idle", outcome |-> "", ret |-> None,
     fresh |-> FALSE, upstream |-> 0, stored |-> FALSE, prev |-> Absent, waited |-> 0,
     streak |-> 0, log |-> <<>>]

Unavailable == {"status", "network_error", "timeout"}

\* streak counts the fetches of one key in a row that found upstream unavailable
Pending(fn, key) ==
    [NoCall EXCEPT !.fn = fn, !.key = key, !.st = "pending", !.upstream = 1,
                   !.streak = IF call.fn = fn /\ call.key = key /\ call.outcome \in Unavailable
                              THEN call.streak ELSE 0]

Ended(fn, key, outcome, ret, upstream, stored, prev) ==
    [NoCall EXCEPT !.fn = fn, !.key = key, !.st = "returned", !.outcome = outcome,
                   !.ret = ret, !.upstream = upstream, !.stored = stored, !.prev = prev,
                   !.streak = IF call.st = "pending" /\ outcome \in Unavailable
                              THEN IF call.streak < MaxStreak THEN call.streak + 1
                                   ELSE MaxStreak
                              ELSE 0]

Raised(fn, key, outcome) ==
    [NoCall EXCEPT !.fn = fn, !.key = key, !.st = "raised", !.outcome = outcome,
                   !.upstream = 1]

Idle == call.st # "pending"

Outcome(r, wellformed) ==
    IF r.kind = "timeout" THEN "timeout"
    ELSE IF r.kind = "exception" THEN "network_error"
    ELSE IF r.status_code # 200 THEN "status"
    ELSE IF wellformed THEN "ok"
    ELSE "malformed"

----------------------------------------------------------------------------
\* The cache store (main.py:43-80)

has(key) == \E e \in _cache : e.key = key            \* key in _cache
lookup(key) == CHOOSE e \in _cache : e.key = key     \* _cache[key]

\* what an invocation records of the entry it found
Prev(key) == IF has(key) THEN lookup(key).data ELSE Absent

\* mutant of get_cached: the freshness test written with <= instead of <
get_cached_inclusive(key, allow_stale) ==
    IF has(key)
    THEN LET data == lookup(key).data
             timestamp == lookup(key).timestamp
             is_fresh == now - timestamp <= CACHE_DURATION
         IN  IF is_fresh THEN <<data, TRUE>>
             ELSE IF allow_stale THEN <<data, FALSE>>
             ELSE <<None, FALSE>>
    ELSE <<None, FALSE>>

get_cached(key, allow_stale) ==
    IF has(key)
    THEN LET data == lookup(key).data
             timestamp == lookup(key).timestamp
             is_fresh == now - timestamp < CACHE_DURATION
         IN  IF is_fresh THEN <<data, TRUE>>
             ELSE IF allow_stale THEN <<data, FALSE>>
             ELSE <<None, FALSE>>
    ELSE <<None, FALSE>>

\* mutant of get_cached_log: the stale hit is not printed
get_cached_log_no_stale_line(key, allow_stale) ==
    IF has(key) /\ now - lookup(key).timestamp < CACHE_DURATION
    THEN <<"Cache hit for">>
    ELSE <<>>

\* the lines get_cached prints (main.py:62, main.py:66)
get_cached_log(key, allow_stale) ==
    IF has(key) /\ now - lookup(key).timestamp < CACHE_DURATION
    THEN <<"Cache hit for">>
    ELSE IF has(key) /\ allow_stale
    THEN <<"Cache stale hit for (fallback)">>
    ELSE <<>>

\* mutant of set_cache: the entry already stored for the key is kept as well
set_cache_keeping_old(key, data) ==
    _cache' = _cache \cup {[key |-> key, data |-> data, timestamp |-> now]}

\* mutant of set_cache: a write also sweeps the expired entries out of the cache
set_cache_sweeping(key, data) ==
    _cache' = {e \in _cache : e.key # key /\ now - e.timestamp < CACHE_DURATION}
                  \cup {[key |-> key, data |-> data, timestamp |-> now]}

\* mutant of set_cache: the first value stored for a key stays
set_cache_first_wins(key, data) ==
    _cache' = IF has(key) THEN _cache
              ELSE _cache \cup {[key |-> key, data |-> data, timestamp |-> now]}

\* mutant of set_cache: the new data is stored under the old timestamp
set_cache_old_timestamp(key, data) ==
    _cache' = {e \in _cache : e.key # key}
                  \cup {[key |-> key, data |-> data,
                         timestamp |-> IF has(key) THEN lookup(key).timestamp ELSE now]}

set_cache(key, data) ==
    _cache' = {e \in _cache : e.key # key}
                  \cup {[key |-> key, data |-> data, timestamp |-> now]}

\* the lines both fetchers run when upstream failed:
\*   stale_data, _ = get_cached(cache_key, allow_stale=True)
\*   if stale_data: return stale_data
\*   return <default>
\* mutant of stale_fallback: `return []` whatever the caller's no-data value is
stale_fallback_empty_list(cache_key, default) ==
    LET stale_data == get_cached(cache_key, TRUE)[1]
    IN  IF Truthy(stale_data) THEN stale_data ELSE PyList(<<>>)

\* mutant of stale_fallback: allow_stale=True forgotten
stale_fallback_fresh_only(cache_key, default) ==
    LET stale_data == get_cached(cache_key, FALSE)[1]
    IN  IF Truthy(stale_data) THEN stale_data ELSE default

stale_fallback(cache_key, default) ==
    LET stale_data == get_cached(cache_key, TRUE)[1]
    IN  IF Truthy(stale_data) THEN stale_data ELSE default

----------------------------------------------------------------------------
\* get_fixed_team (main.py:89-140)

\* lines 124-128: response.json()["data"], then data["name"], data["city"],
\* data["abbreviation"]; any of them raising lands in `except Exception`
team_body_ok(body) ==
    body.kind = "data" /\ body.data.t = "dict" /\ Len(body.data.items) >= 3

team_result(body) ==
    PyTuple(<<body.data.items[1], body.data.items[2], body.data.items[3]>>)

\* the lines get_fixed_team prints once requests.get has returned or raised
\* (main.py:115, main.py:135), with those of its fallback read
team_log(r, cache_key) ==
    IF r.kind = "response" /\ r.status_code = 200 /\ team_body_ok(r.body)
    THEN <<>>
    ELSE IF r.kind = "response" /\ r.status_code # 200
    THEN <<"Error from balldontlie:">> \o get_cached_log(cache_key, TRUE)
    ELSE <<"Request failed:">> \o get_cached_log(cache_key, TRUE)

get_fixed_team_start ==
    /\ Idle
    /\ LET cache_key == team_cache_key
           cached == get_cached(cache_key, FALSE)[1]
           is_fresh == get_cached(cache_key, FALSE)[2]
       IN  IF cached # None /\ is_fresh
           THEN call' = [Ended("get_fixed_team", cache_key, "hit", cached, 0, FALSE,
                               Prev(cache_key))
                           EXCEPT !.log = get_cached_log(cache_key, FALSE)]
           ELSE call' = [Pending("get_fixed_team", cache_key)
                           EXCEPT !.log = get_cached_log(cache_key, FALSE)]
    /\ UNCHANGED <<_cache, now, fetched>>

get_fixed_team_finish(r) ==
    /\ call.st = "pending" /\ call.fn = "get_fixed_team"
    /\ LET cache_key == call.key
           outcome == Outcome(r, team_body_ok(r.body))
       IN  IF r.kind = "response" /\ r.status_code = 200 /\ team_body_ok(r.body)
           THEN /\ set_cache(cache_key, team_result(r.body))
                /\ call' = [Ended("get_fixed_team", cache_key, outcome,
                                  team_result(r.body), 1, TRUE, Prev(cache_key))
                              EXCEPT !.log = call.log \o team_log(r, cache_key)]
                /\ fetched' = fetched \cup {cache_key}
           ELSE /\ call' = [Ended("get_fixed_team", cache_key, outcome,
                                  stale_fallback(cache_key, None), 1, FALSE,
                                  Prev(cache_key))
                              EXCEPT !.log = call.log \o team_log(r, cache_key)]
                /\ UNCHANGED <<_cache, fetched>>
    /\ UNCHANGED now

----------------------------------------------------------------------------
\* get_team_games (main.py:143-194)

\* line 185: response.json().get("data", []); json() raising lands in
\* `except Exception`, a missing "data" gives the default []
games_body_raises(body) == body.kind = "invalid_json"

games_result(body) == IF body.kind = "data" THEN body.data ELSE PyList(<<>>)

\* the body upstream documents: an object whose "data" is a list
games_body_ok(body) == body.kind = "data" /\ body.data.t = "list"

\* the lines get_team_games prints once requests.get has returned or raised
\* (main.py:172-173, 177-178, 190), with those of its fallback read
games_log(r, cache_key) ==
    IF r.kind # "response"
    THEN <<"Request failed:">> \o get_cached_log(cache_key, TRUE)
    ELSE <<"Games status:", "Games URL:">>
             \o IF r.status_code # 200
                THEN <<"Error from balldontlie (games):">> \o get_cached_log(cache_key, TRUE)
                ELSE IF games_body_raises(r.body)
                THEN <<"Request failed:">> \o get_cached_log(cache_key, TRUE)
                ELSE <<>>

get_team_games_start(team_id, season, per_page) ==
    /\ Idle
    /\ LET cache_key == games_cache_key(team_id, season, per_page)
           cached == get_cached(cache_key, FALSE)[1]
           is_fresh == get_cached(cache_key, FALSE)[2]
       IN  IF cached # None /\ is_fresh
           THEN call' = [Ended("get_team_games", cache_key, "hit", cached, 0, FALSE,
                               Prev(cache_key))
                           EXCEPT !.log = get_cached_log(cache_key, FALSE)]
           ELSE call' = [Pending("get_team_games", cache_key)
                           EXCEPT !.log = get_cached_log(cache_key, FALSE)]
    /\ UNCHANGED <<_cache, now, fetched>>

get_team_games_finish(r) ==
    /\ call.st = "pending" /\ call.fn = "get_team_games"
    /\ LET cache_key == call.key
           outcome == Outcome(r, games_body_ok(r.body))
       IN  IF r.kind = "response" /\ r.status_code = 200 /\ ~games_body_raises(r.body)
           THEN /\ set_cache(cache_key, games_result(r.body))
                /\ call' = [Ended("get_team_games", cache_key, outcome,
                                  games_result(r.body), 1, TRUE, Prev(cache_key))
                              EXCEPT !.log = call.log \o games_log(r, cache_key)]
                /\ fetched' = IF outcome = "ok" THEN fetched \cup {cache_key}
                              ELSE fetched \ {cache_key}
           ELSE /\ call' = [Ended("get_team_games", cache_key, outcome,
                                  stale_fallback(cache_key, PyList(<<>>)), 1, FALSE,
                                  Prev(cache_key))
                              EXCEPT !.log = call.log \o games_log(r, cache_key)]
                /\ UNCHANGED <<_cache, fetched>>
    /\ UNCHANGED now

----------------------------------------------------------------------------
\* get_lakers_games (services/nba.py:24-118): no cache, no timeout, no try.
\* The list it returns holds one processed record per game of "data".

lakers_raises(r) ==
    \/ r.kind # "response"                               \* requests.get raised
    \/ /\ r.status_code = 200
       /\ \/ r.body.kind = "invalid_json"                \* response.json() raised
          \/ r.body.kind = "data" /\ r.body.data.t # "list"   \* `for game in None`

get_lakers_games_start ==
    /\ Idle
    /\ call' = Pending("get_lakers_games", "")
    /\ UNCHANGED <<_cache, now, fetched>>

get_lakers_games_finish(r) ==
    /\ call.st = "pending" /\ call.fn = "get_lakers_games"
    /\ LET outcome == Outcome(r, games_body_ok(r.body))
       IN  IF lakers_raises(r)
           THEN call' = Raised("get_lakers_games", "", outcome)
           ELSE IF r.status_code # 200
           THEN call' = [Ended("get_lakers_games", "", outcome, PyList(<<>>), 1, FALSE,
                               Absent)
                           EXCEPT !.log = <<"Error fetching games:">>]
           ELSE call' = Ended("get_lakers_games", "", outcome,
                              PyList(games_result(r.body).items), 1, FALSE, Absent)
    /\ UNCHANGED <<_cache, now, fetched>>

----------------------------------------------------------------------------
\* The cache store called on its own

\* mutant of get_cached_call: a read that finds the entry expired evicts it
get_cached_call_evicting(key, allow_stale) ==
    /\ Idle
    /\ call' = [Ended("get_cached", key, IF allow_stale THEN "allow_stale" ELSE "default",
                      get_cached(key, allow_stale)[1], 0, FALSE, Prev(key))
                  EXCEPT !.fresh = get_cached(key, allow_stale)[2],
                         !.log = get_cached_log(key, allow_stale)]
    /\ _cache' = {e \in _cache : e.key # key \/ now - e.timestamp < CACHE_DURATION}
    /\ UNCHANGED <<now, fetched>>

get_cached_call(key, allow_stale) ==
    /\ Idle
    /\ call' = [Ended("get_cached", key, IF allow_stale THEN "allow_stale" ELSE "default",
                      get_cached(key, allow_stale)[1], 0, FALSE, Prev(key))
                  EXCEPT !.fresh = get_cached(key, allow_stale)[2],
                         !.log = get_cached_log(key, allow_stale)]
    /\ UNCHANGED <<_cache, now, fetched>>

set_cache_call(key, data) ==
    /\ Idle
    /\ set_cache(key, data)
    /\ call' = Ended("set_cache", key, "", data, 0, TRUE, Prev(key))
    /\ fetched' = fetched \ {key}
    /\ UNCHANGED now

\* the values a caller stores under a key: the results of well-formed answers
Storable(key) ==
    IF key = team_cache_key
    THEN {team_result(b) : b \in {b \in Bodies(TeamData) : team_body_ok(b)}}
    ELSE {games_result(b) : b \in {b \in Bodies(GamesData) : games_body_ok(b)}}

----------------------------------------------------------------------------
\* Time

has_timeout(fn) == fn \in {"get_fixed_team", "get_team_games"}   \* timeout=10

Tick ==
    /\ now < MaxTime
    /\ call.st = "pending" /\ has_timeout(call.fn) => call.waited < MaxWait
    /\ now' = now + 1
    /\ call' = IF call.st = "pending" /\ has_timeout(call.fn)
               THEN [call EXCEPT !.waited = @ + 1] ELSE call
    /\ UNCHANGED <<_cache, fetched>>

----------------------------------------------------------------------------
\* the parts of the state the other specifications use, at rest
NoThreads == threads = <<>> /\ written = {} /\ last = <<>>
NoPage == games = <<>> /\ view = <<>>

Init ==
    /\ _cache = {}
    /\ now = 0
    /\ call = NoCall
    /\ fetched = {}
    /\ NoThreads
    /\ NoPage

\* one caller at a time: the concurrent callers and the page stay as they are
Alone == UNCHANGED <<threadVars, pageVars>>

Next ==
    \/ Tick /\ Alone
    \/ \E key \in Keys, allow_stale \in BOOLEAN :
           get_cached_call(key, allow_stale) /\ Alone
    \/ \E key \in Keys : \E data \in Storable(key) : set_cache_call(key, data) /\ Alone
    \/ get_fixed_team_start /\ Alone
    \/ \E r \in Responses(TeamData) \cup {ConnectionError, TimeoutError} :
           get_fixed_team_finish(r) /\ Alone
    \/ \E s \in Seasons, p \in PerPages :
           get_team_games_start(FIXED_TEAM_ID, s, p) /\ Alone
    \/ \E r \in Responses(GamesData) \cup {ConnectionError, TimeoutError} :
           get_team_games_finish(r) /\ Alone
    \/ get_lakers_games_start /\ Alone
    \/ \E r \in Responses(GamesData) \cup {ConnectionError} :
           get_lakers_games_finish(r) /\ Alone

Spec == Init /\ [][Next]_vars

----------------------------------------------------------------------------
\* Vocabulary of the properties

Fetchers == {"get_fixed_team", "get_team_games"}

\* the entry of k is younger than the TTL
FreshEntry(k) == has(k) /\ now - lookup(k).timestamp < CACHE_DURATION

\* a step that invokes a fetcher for k: it ends in a hit or leaves a request in flight
FetchStart(k) ==
    /\ Idle /\ now' = now
    /\ call'.fn \in Fetchers /\ call'.key = k
    /\ call'.st = "pending" \/ call'.outcome = "hit"

\* a step in which the fetcher waiting on upstream for k gets its answer and ends
FetchFinish(k) ==
    /\ call.st = "pending" /\ call.fn \in Fetchers /\ call.key = k
    /\ call'.st # "pending"

\* the fetcher's invocation that ended last
FetchEnded == call.st = "returned" /\ call.fn \in Fetchers

\* what each fetcher returns for "no data"
NoData(fn) == IF fn = "get_fixed_team" THEN None ELSE PyList(<<>>)

----------------------------------------------------------------------------
\* C1.  No call on fresh hit: whenever get_fixed_team / get_team_games is
\* invoked for a key whose entry is younger than the TTL, the invocation
\* returns the stored value and issues no upstream request.
C1_NoCallOnFreshHit ==
    [][\A k \in Keys :
          FetchStart(k) /\ FreshEntry(k)
              => /\ call'.st = "returned"
                 /\ call'.ret = lookup(k).data
                 /\ call'.upstream = 0]_vars

\* C2.  Fallback on failure with history: a fetcher whose upstream call failed
\* (status other than 200, network error, timeout) while the cache held an
\* entry for the key, of any age, returns that entry's value.
C2_FallbackWithHistory ==
    FetchEnded /\ call.outcome \in Unavailable /\ call.prev # Absent
        => call.ret = call.prev

\* C3.  Absence on failure without history: a fetcher whose upstream call
\* failed while the cache had no entry for the key returns None
\* (get_fixed_team) or the empty list (get_team_games), and the cache still
\* has no entry for the key.
C3_AbsenceWithoutHistory ==
    FetchEnded /\ call.outcome \in Unavailable /\ call.prev = Absent
        => call.ret = NoData(call.fn) /\ ~has(call.key)

C3_Witness ==
    /\ FetchEnded /\ call.fn = "get_team_games" /\ call.outcome = "timeout"
    /\ call.prev = Absent /\ call.ret = PyList(<<>>) /\ ~has(call.key)
    /\ has(team_cache_key)

----------------------------------------------------------------------------
\* a step that calls get_cached(k, allow_stale) on its own
GetCachedStep(k, allow_stale) ==
    /\ Idle /\ now' = now
    /\ call'.fn = "get_cached" /\ call'.key = k
    /\ call'.outcome = IF allow_stale THEN "allow_stale" ELSE "default"

\* C4 as claimed.  Freshness window: for a key set at time T, get_cached with
\* default arguments returns isFresh = true at a read in [T, T+D), and at a
\* read at T+D or later isFresh = false together with the stored value.
C4_FreshnessWindow_Original ==
    [][\A k \in Keys :
          GetCachedStep(k, FALSE) /\ has(k)
              => /\ call'.fresh = (now - lookup(k).timestamp < CACHE_DURATION)
                 /\ call'.ret = lookup(k).data]_vars

\* C4 as amended.  For a key set at time T, get_cached with default arguments
\* returns the stored value and isFresh = true at a read in [T, T+D); at a
\* read at T+D or later it returns None and isFresh = false, while the entry
\* stays in the cache and get_cached(k, allow_stale=True) returns its value
\* with isFresh = false.
C4_FreshnessWindow ==
    [][\A k \in Keys :
          /\ GetCachedStep(k, FALSE) /\ has(k)
                => /\ call'.fresh = (now - lookup(k).timestamp < CACHE_DURATION)
                   /\ call'.ret = IF now - lookup(k).timestamp < CACHE_DURATION
                                  THEN lookup(k).data ELSE None
                   /\ _cache' = _cache
          /\ GetCachedStep(k, TRUE) /\ has(k)
                => /\ call'.fresh = (now - lookup(k).timestamp < CACHE_DURATION)
                   /\ call'.ret = lookup(k).data
                   /\ _cache' = _cache]_vars

\* a default read of an entry exactly D minutes old gave (None, False)
C4_Witness ==
    /\ call.fn = "get_cached" /\ call.outcome = "default" /\ call.st = "returned"
    /\ has(call.key) /\ lookup(call.key).data # None
    /\ now - lookup(call.key).timestamp = CACHE_DURATION
    /\ call.ret = None /\ ~call.fresh

----------------------------------------------------------------------------
\* the entries the cache holds for k
Entries(c, k) == {e \in c : e.key = k}

\* C5.  On a successful upstream fetch for key k (status 200 and a well-formed
\* body) the fetched result is stored under k with storedAt = now, replacing
\* any prior entry, and that same result is returned to the caller.
C5_StoreOnSuccess ==
    [][/\ \A d \in TeamData :
             d.t = "dict" /\ Len(d.items) = 3
                 /\ get_fixed_team_finish(Response(200, [kind |-> "data", data |-> d]))
             => /\ call'.st = "returned"
                /\ call'.ret = PyTuple(d.items)
                /\ Entries(_cache', call.key)
                       = {[key |-> call.key, data |-> PyTuple(d.items), timestamp |-> now]}
       /\ \A d \in GamesData :
             d.t = "list"
                 /\ get_team_games_finish(Response(200, [kind |-> "data", data |-> d]))
             => /\ call'.st = "returned"
                /\ call'.ret = d
                /\ Entries(_cache', call.key)
                       = {[key |-> call.key, data |-> d, timestamp |-> now]}]_vars

\* a fetch has just replaced a stale entry that held another value
C5_Witness ==
    /\ FetchEnded /\ call.outcome = "ok" /\ call.stored
    /\ call.prev # Absent /\ call.prev # call.ret
    /\ Entries(_cache, call.key)
           = {[key |-> call.key, data |-> call.ret, timestamp |-> now]}
    /\ now >= CACHE_DURATION

\* C6.  Every kind of upstream failure, a malformed body on a 200 status
\* included, takes the stale-fallback path: the fetcher stores nothing and
\* returns the previously stored value if there is one.
C6_EveryFailureFallsBack ==
    FetchEnded /\ call.outcome \in Unavailable \cup {"malformed"}
        => /\ ~call.stored
           /\ call.prev # Absent => call.ret = call.prev

\* C7.  Sustained outage serves one fixed snapshot: once a successful fetch
\* has stored v for k, every call for k within the TTL returns v without an
\* upstream call, and every call whose upstream call fails (status other than
\* 200, network error, timeout) returns v and leaves the entry of k unchanged,
\* however many such calls follow one another.
C7_OutageServesSnapshot ==
    [][\A k \in fetched :
          /\ FetchStart(k) /\ FreshEntry(k)
                => /\ call'.st = "returned" /\ call'.upstream = 0
                   /\ call'.ret = lookup(k).data
                   /\ _cache' = _cache
          /\ FetchFinish(k) /\ call'.outcome \in Unavailable
                => /\ call'.st = "returned"
                   /\ call'.ret = lookup(k).data
                   /\ _cache' = _cache]_vars

\* the second failed fetch in a row has returned the expired snapshot
C7_Witness ==
    /\ FetchEnded /\ call.key \in fetched /\ call.outcome \in Unavailable
    /\ call.streak = 2
    /\ has(call.key) /\ call.ret = lookup(call.key).data /\ Truthy(call.ret)
    /\ now - lookup(call.key).timestamp >= CACHE_DURATION

\* C8.  Upstream unavailability (status other than 2xx, network error,
\* timeout) never makes a query function raise to its caller.
C8_NeverRaises ==
    ~(call.st = "raised" /\ call.outcome \in Unavailable)

\* C9.  Every invocation of a query function that waits on upstream
\* eventually ends, even if upstream never answers.
C9_EveryCallEnds ==
    (call.st = "pending") ~> (call.st # "pending")

\* C10.  Last write wins, one entry per key: the cache never holds two
\* entries for a key, and after a set_cache(k, v2) that follows an earlier
\* set_cache(k, v1) a lookup of k returns v2.
C10_LastWriteWins ==
    /\ \A e1, e2 \in _cache : e1.key = e2.key => e1 = e2
    /\ call.fn = "set_cache"
           => has(call.key) /\ get_cached(call.key, TRUE)[1] = call.ret

\* set_cache has just overwritten an entry that held another value
C10_Witness ==
    /\ call.fn = "set_cache" /\ call.prev # Absent /\ call.prev # call.ret
    /\ get_cached(call.key, TRUE)[1] = call.ret

\* C11.  Entries are never deleted: once the cache holds an entry for a key
\* it holds one in every later state, whatever get_cached, set_cache,
\* get_fixed_team and get_team_games do and however old the entry is.
C11_EntriesNeverDeleted ==
    [][\A k \in Keys : has(k) => \E e \in _cache' : e.key = k]_vars

\* an entry older than the TTL outlived a write to the other key
C11_Witness ==
    /\ \E k \in Keys : has(k) /\ now - lookup(k).timestamp > CACHE_DURATION
                          /\ call.key # k
    /\ call.st = "returned" /\ call.stored /\ now - lookup(call.key).timestamp = 0

\* C12.  get_cached(k, allow_stale=True) returns the stored value whenever the
\* cache holds an entry for k, of any age, and returns absent, (None, False),
\* exactly when the cache holds no entry for k.
C12_AllowStaleRead ==
    [][\A k \in Keys :
          GetCachedStep(k, TRUE)
              => /\ has(k) => call'.ret = lookup(k).data
                 /\ (call'.ret = None /\ ~call'.fresh) <=> ~has(k)]_vars

\* C13.  Reads do not mutate: get_cached, with allow_stale False or True,
\* leaves the whole cache unchanged for every key and cache state, and so does
\* every step of a get_fixed_team / get_team_games call that ends in a fresh
\* hit or in an upstream failure (status other than 200, network error,
\* timeout).
C13_ReadsDoNotMutate ==
    [][\A k \in Keys :
          /\ \A allow_stale \in BOOLEAN : GetCachedStep(k, allow_stale) => _cache' = _cache
          /\ FetchStart(k) => _cache' = _cache
          /\ FetchFinish(k) /\ call'.outcome \in Unavailable => _cache' = _cache]_vars

\* a read with allow_stale=True returned the value of an expired entry, which
\* is still in the cache next to the other key's entry
C13_Witness ==
    /\ call.fn = "get_cached" /\ call.outcome = "allow_stale" /\ call.st = "returned"
    /\ has(call.key) /\ now - lookup(call.key).timestamp > CACHE_DURATION
    /\ call.ret = lookup(call.key).data /\ Truthy(call.ret)
    /\ \A k \in Keys : has(k)

\* C17.  Single attempt per invocation: an invocation of get_fixed_team /
\* get_team_games issues exactly one upstream call when the key is absent or
\* stale and none when it is fresh, and an invocation that waited on upstream
\* ends with that one call, failed or not.
C17_SingleAttempt ==
    [][\A k \in Keys :
          /\ FetchStart(k) => call'.upstream = IF FreshEntry(k) THEN 0 ELSE 1
          /\ FetchFinish(k) => call'.upstream = 1]_vars

----------------------------------------------------------------------------
\* Concurrent callers.  The handlers of main.py are plain `def` functions, which
\* FastAPI runs in a thread pool: several threads run get_fixed_team and
\* get_team_games at once over the one module-level _cache, and the code takes
\* no lock.  A thread's steps are its cache operations (get_cached reads the
\* stored tuple with one dict subscript, set_cache stores one tuple with one
\* dict store) and its requests.get.

NumCallers == 2
Callers == 1..NumCallers

NoResponse == [kind |-> "none", status_code |-> 0, body |-> NoBody]

\* a thread that has not called yet.  obs holds the (data, timestamp) tuples the
\* thread read out of _cache; inflight says whether another thread's request
\* was in flight when this thread did its last cache operation; resp_no and
\* write_no number the answers of upstream and the calls of set_cache in the
\* order they happened, and replaced is the resp_no of the answer whose value
\* the thread's set_cache wrote over (0: none of these callers' answers)
IdleThread ==
    [pc |-> "idle", fn |-> "none", key |-> "", resp |-> NoResponse, ret |-> None,
     obs |-> {}, upstream |-> 0, stored |-> FALSE, inflight |-> FALSE,
     resp_no |-> 0, write_no |-> 0, replaced |-> 0]

\* cache_key of the call the page makes (main.py:102, main.py:155, main.py:234)
thread_key(fn) ==
    IF fn = "get_fixed_team" THEN team_cache_key
    ELSE games_cache_key(FIXED_TEAM_ID, 2024, 25)

\* `data, timestamp = _cache[key]` (main.py:58), when the key is there
observed(key) == IF has(key) THEN {lookup(key)} ELSE {}

\* the answers upstream gives the concurrent callers
ThreadResponses(fn) ==
    {Response(200, [kind |-> "data", data |-> d]) :
         d \in IF fn = "get_fixed_team"
               THEN {PyDict(<<"Lakers", "Los Angeles", "LAL">>), PyDict(<<"Lakers", "LA", "LAL">>)}
               ELSE {PyList(<<"g1">>), PyList(<<"g1", "g2">>)}}
        \cup {TimeoutError}

\* the answers after which the fetcher calls set_cache, and what it stores
thread_stores(fn, r) ==
    /\ r.kind = "response" /\ r.status_code = 200
    /\ IF fn = "get_fixed_team" THEN team_body_ok(r.body) ELSE ~games_body_raises(r.body)

thread_result(fn, r) ==
    IF fn = "get_fixed_team" THEN team_result(r.body) ELSE games_result(r.body)

RequestInFlight(t) == \E u \in Callers \ {t} : threads[u].pc = "request"

\* the callers that have stored under key so far, and the resp_no of the answer
\* whose value the key's entry holds now
Writers(key) == {u \in Callers : threads[u].stored /\ threads[u].key = key}

stored_resp_no(key) ==
    IF Writers(key) = {} THEN 0
    ELSE threads[CHOOSE u \in Writers(key) :
                     \A w \in Writers(key) : threads[w].write_no <= threads[u].write_no].resp_no

SequentialAtRest == UNCHANGED <<call, fetched, pageVars>>

\* mutant of thread_start: the cache is locked while any request is in flight
thread_start_locked(t, fn) ==
    /\ threads[t].pc = "idle"
    /\ \A u \in Callers : threads[u].pc # "request"
    /\ LET cache_key == thread_key(fn)
           cached == get_cached(cache_key, FALSE)[1]
           is_fresh == get_cached(cache_key, FALSE)[2]
       IN  threads' = [threads EXCEPT ![t] =
               IF cached # None /\ is_fresh
               THEN [@ EXCEPT !.pc = "done", !.fn = fn, !.key = cache_key, !.ret = cached,
                              !.obs = observed(cache_key), !.inflight = RequestInFlight(t)]
               ELSE [@ EXCEPT !.pc = "request", !.fn = fn, !.key = cache_key,
                              !.obs = observed(cache_key), !.upstream = 1,
                              !.inflight = RequestInFlight(t)]]
    /\ UNCHANGED <<_cache, now, written, last>>
    /\ SequentialAtRest

\* the call up to requests.get: get_cached(cache_key), then the hit test
thread_start(t, fn) ==
    /\ threads[t].pc = "idle"
    /\ LET cache_key == thread_key(fn)
           cached == get_cached(cache_key, FALSE)[1]
           is_fresh == get_cached(cache_key, FALSE)[2]
       IN  threads' = [threads EXCEPT ![t] =
               IF cached # None /\ is_fresh
               THEN [@ EXCEPT !.pc = "done", !.fn = fn, !.key = cache_key, !.ret = cached,
                              !.obs = observed(cache_key), !.inflight = RequestInFlight(t)]
               ELSE [@ EXCEPT !.pc = "request", !.fn = fn, !.key = cache_key,
                              !.obs = observed(cache_key), !.upstream = 1,
                              !.inflight = RequestInFlight(t)]]
    /\ UNCHANGED <<_cache, now, written, last>>
    /\ SequentialAtRest

\* requests.get returns or raises in the thread (timeout=10)
thread_response(t, r) ==
    /\ threads[t].pc = "request"
    /\ threads' = [threads EXCEPT ![t].pc = "got", ![t].resp = r,
                                  ![t].resp_no = 1 + Cardinality({u \in Callers :
                                                                     threads[u].resp_no > 0})]
    /\ UNCHANGED <<_cache, now, written, last>>
    /\ SequentialAtRest

\* the rest of the call: set_cache and `return data`, or the stale fallback
thread_finish(t) ==
    /\ threads[t].pc = "got"
    /\ LET fn == threads[t].fn
           cache_key == threads[t].key
           r == threads[t].resp
       IN  IF thread_stores(fn, r)
           THEN /\ set_cache(cache_key, thread_result(fn, r))
                /\ written' = written \cup {[key |-> cache_key, data |-> thread_result(fn, r),
                                             timestamp |-> now]}
                /\ last' = [last EXCEPT ![cache_key] =
                               {[key |-> cache_key, data |-> thread_result(fn, r),
                                 timestamp |-> now]}]
                /\ threads' = [threads EXCEPT ![t].pc = "done",
                                              ![t].ret = thread_result(fn, r),
                                              ![t].stored = TRUE,
                                              ![t].inflight = RequestInFlight(t),
                                              ![t].write_no = 1 + Cardinality({u \in Callers :
                                                                      threads[u].stored}),
                                              ![t].replaced = stored_resp_no(cache_key)]
           ELSE /\ threads' = [threads EXCEPT ![t].pc = "done",
                                              ![t].ret = stale_fallback(cache_key, NoData(fn)),
                                              ![t].obs = @ \cup observed(cache_key),
                                              ![t].inflight = RequestInFlight(t)]
                /\ UNCHANGED <<_cache, written, last>>
    /\ UNCHANGED now
    /\ SequentialAtRest

\* the entries earlier calls left behind, five minutes or more ago
OldEntries ==
    {[key |-> team_cache_key, data |-> PyTuple(<<"Lakers", "Los Angeles", "LAL">>),
      timestamp |-> 0],
     [key |-> thread_key("get_team_games"), data |-> PyList(<<"g1">>), timestamp |-> 0]}

InitThreads ==
    /\ _cache \in SUBSET OldEntries
    /\ now = CACHE_DURATION
    /\ threads = [t \in Callers |-> IdleThread]
    /\ written = _cache
    /\ last = [k \in Keys |-> observed(k)]
    /\ call = NoCall /\ fetched = {}
    /\ NoPage

NextThreads ==
    \/ Tick /\ Alone
    \/ \E t \in Callers, fn \in Fetchers : thread_start(t, fn)
    \/ \E t \in Callers : \E r \in ThreadResponses(threads[t].fn) : thread_response(t, r)
    \/ \E t \in Callers : thread_finish(t)

SpecThreads == InitThreads /\ [][NextThreads]_vars

\* C14.  Concurrent callers, last set wins: of the callers that concurrently
\* invoke a fetcher for the same stale or missing key each may make its own
\* upstream call; every caller whose upstream call succeeded returns the value
\* it fetched; and once all callers have finished, the cache entry of the key
\* is the one written by the last set_cache that ran.
C14_LastSetWins ==
    /\ \A t \in Callers :
          threads[t].pc = "done" /\ threads[t].upstream = 1
                  /\ thread_stores(threads[t].fn, threads[t].resp)
              => threads[t].ret = thread_result(threads[t].fn, threads[t].resp)
    /\ (\A t \in Callers : threads[t].pc = "done")
           => \A k \in Keys : Entries(_cache, k) = last[k]

\* two callers found the same key stale, both asked upstream, both returned
\* their own (different) values, and the cache holds the last one written
C14_Witness ==
    /\ \A t \in Callers : threads[t].pc = "done"
    /\ \E t, u \in Callers :
          /\ t # u /\ threads[t].key = threads[u].key
          /\ threads[t].upstream = 1 /\ threads[u].upstream = 1
          /\ threads[t].stored /\ threads[u].stored
          /\ threads[t].ret # threads[u].ret
          /\ threads[t].obs # {} /\ threads[u].obs = threads[t].obs
          /\ Entries(_cache, threads[t].key) = last[threads[t].key]
          /\ lookup(threads[t].key).data = threads[u].ret

\* C15.  No torn reads: under every interleaving of the callers' get_cached
\* and set_cache steps, each (value, timestamp) pair that get_cached reads for
\* a key was written as one pair by one set_cache for that key.
C15_NoTornReads ==
    \A t \in Callers : \A o \in threads[t].obs : o \in written

\* a caller read a pair that another caller's set_cache had written over an
\* older entry of the key
C15_Witness ==
    \E t \in Callers : \E o \in threads[t].obs :
        /\ o.timestamp >= CACHE_DURATION /\ o.key = threads[t].key
        /\ ~threads[t].stored /\ threads[t].pc = "done"
        /\ \E w \in written : w.key = o.key /\ w.timestamp < o.timestamp
        /\ \E u \in Callers \ {t} : threads[u].stored /\ threads[u].key = o.key

\* C16.  The upstream call is made outside any cache lock: while one caller's
\* request is in flight, the cache operation any other caller is about to do
\* (the get_cached that opens a call, the set_cache or get_cached that closes
\* it), for another key or the same one, can run; no cache operation waits on
\* an in-flight upstream call.
C16_NoLockAcrossRequest ==
    \A t, u \in Callers :
        t # u /\ threads[t].pc = "request"
            => /\ threads[u].pc = "idle"
                   => \A fn \in Fetchers : ENABLED thread_start(u, fn)
               /\ threads[u].pc = "got" => ENABLED thread_finish(u)

\* a caller ran get_cached and set_cache for its key from start to end while
\* another caller's request for the other key stayed in flight
C16_Witness ==
    \E t, u \in Callers :
        /\ threads[t].pc = "request" /\ threads[u].pc = "done"
        /\ threads[u].key # threads[t].key
        /\ threads[u].stored /\ threads[u].inflight
        /\ lookup(threads[u].key).data = threads[u].ret

----------------------------------------------------------------------------
\* The game records and the pages that consume them.  A Python dict is a
\* function whose DOMAIN is the set of keys it has; dates are numbered in
\* calendar order (ISO strings of one format sort the same way) and the ""
\* that stands for a missing date sorts before them all.

MaxGames == 2
LAKERS_TEAM_ID == 14
LAL_TEAM_ID == 14

EmptyDict == [k \in {} |-> 0]
NoDate == 0

Lakers == [id |-> 14, full_name |-> "Los Angeles Lakers", abbreviation |-> "LAL"]
Celtics == [id |-> 2, full_name |-> "Boston Celtics", abbreviation |-> "BOS"]
Warriors == [id |-> 10, full_name |-> "Golden State Warriors", abbreviation |-> "GSW"]

\* <<home, visitor>> of the games upstream sends
Matchups == {<<Lakers, Celtics>>, <<Celtics, Lakers>>, <<Celtics, Warriors>>}
Dates == {1, 2}
Scores == {100, 110}

WellFormedGames ==
    {[date |-> d, home_team |-> m[1], visitor_team |-> m[2],
      home_team_score |-> hs, visitor_team_score |-> vs, status |-> "Final"] :
         d \in Dates, m \in Matchups, hs \in Scores, vs \in Scores}

\* records that lack fields: an empty one, and a game not yet played
MalformedGames ==
    {EmptyDict,
     [date |-> 2, home_team |-> Lakers, visitor_team |-> [id |-> 2]]}

RawGames == WellFormedGames \cup MalformedGames

RECURSIVE ListsOf(_, _)
ListsOf(S, n) ==
    IF n = 0 THEN {<<>>}
    ELSE ListsOf(S, n - 1) \cup {Append(l, x) : l \in {l \in ListsOf(S, n - 1) : Len(l) = n - 1}, x \in S}

\* d.get(k, default)
get(d, k, default) == IF k \in DOMAIN d THEN d[k] ELSE default

\* d.get("id") == team_id
id_is(d, team_id) == "id" \in DOMAIN d /\ d.id = team_id

\* mutant of process_game: a tie counts as a win
process_game_tie_wins(game) ==
    LET home_team == get(game, "home_team", EmptyDict)
        visitor_team == get(game, "visitor_team", EmptyDict)
        home_score == get(game, "home_team_score", 0)
        visitor_score == get(game, "visitor_team_score", 0)
        is_lakers_home == id_is(home_team, LAKERS_TEAM_ID)
        lakers_score == IF is_lakers_home THEN home_score ELSE visitor_score
        opponent_score == IF is_lakers_home THEN visitor_score ELSE home_score
        opponent_name == IF is_lakers_home THEN get(visitor_team, "full_name", "Unknown")
                         ELSE get(home_team, "full_name", "Unknown")
    IN  [date |-> get(game, "date", NoDate),
         lakers_score |-> lakers_score,
         opponent_score |-> opponent_score,
         opponent |-> opponent_name,
         location |-> IF is_lakers_home THEN "Home" ELSE "Away",
         won |-> lakers_score >= opponent_score,
         point_diff |-> lakers_score - opponent_score,
         status |-> get(game, "status", "")]

\* mutant of process_game: in the away branch the two scores are not swapped
process_game_position(game) ==
    LET home_team == get(game, "home_team", EmptyDict)
        visitor_team == get(game, "visitor_team", EmptyDict)
        home_score == get(game, "home_team_score", 0)
        visitor_score == get(game, "visitor_team_score", 0)
        is_lakers_home == id_is(home_team, LAKERS_TEAM_ID)
        lakers_score == home_score
        opponent_score == visitor_score
        opponent_name == IF is_lakers_home THEN get(visitor_team, "full_name", "Unknown")
                         ELSE get(home_team, "full_name", "Unknown")
    IN  [date |-> get(game, "date", NoDate),
         lakers_score |-> lakers_score,
         opponent_score |-> opponent_score,
         opponent |-> opponent_name,
         location |-> IF is_lakers_home THEN "Home" ELSE "Away",
         won |-> lakers_score > opponent_score,
         point_diff |-> lakers_score - opponent_score,
         status |-> get(game, "status", "")]

\* the body of the loop of get_lakers_games (services/nba.py:76-113)
process_game(game) ==
    LET home_team == get(game, "home_team", EmptyDict)
        visitor_team == get(game, "visitor_team", EmptyDict)
        home_score == get(game, "home_team_score", 0)
        visitor_score == get(game, "visitor_team_score", 0)
        is_lakers_home == id_is(home_team, LAKERS_TEAM_ID)
        lakers_score == IF is_lakers_home THEN home_score ELSE visitor_score
        opponent_score == IF is_lakers_home THEN visitor_score ELSE home_score
        opponent_name == IF is_lakers_home THEN get(visitor_team, "full_name", "Unknown")
                         ELSE get(home_team, "full_name", "Unknown")
    IN  [date |-> get(game, "date", NoDate),
         lakers_score |-> lakers_score,
         opponent_score |-> opponent_score,
         opponent |-> opponent_name,
         location |-> IF is_lakers_home THEN "Home" ELSE "Away",
         won |-> lakers_score > opponent_score,
         point_diff |-> lakers_score - opponent_score,
         status |-> get(game, "status", "")]

\* list.sort(key=lambda x: x["date"]): ascending and stable
RECURSIVE sort_by_date(_)
sort_by_date(l) ==
    IF l = <<>> THEN <<>>
    ELSE LET x == l[Len(l)]
             rest == sort_by_date(SubSeq(l, 1, Len(l) - 1))
             before == SelectSeq(rest, LAMBDA y : y.date <= x.date)
             after == SelectSeq(rest, LAMBDA y : y.date > x.date)
         IN  before \o <<x>> \o after

\* what get_lakers_games returns for the "data" list of a 200 answer
processed_games(data) == sort_by_date([i \in 1..Len(data) |-> process_game(data[i])])

\* the subscripts of the /team loop (main.py:254-268): a missing key raises
team_row_raises(g) ==
    \/ ~({"date", "home_team", "visitor_team", "home_team_score", "visitor_team_score"}
            \subseteq DOMAIN g)
    \/ "id" \notin DOMAIN g.home_team
    \/ "abbreviation" \notin DOMAIN (IF g.home_team.id = FIXED_TEAM_ID
                                     THEN g.visitor_team ELSE g.home_team)

\* one turn of the /team loop (main.py:251-277): what it appends to dates,
\* lakers_scores, opponent_scores, opponents, point_diffs and locations
team_row(g) ==
    LET is_home == g.home_team.id = FIXED_TEAM_ID
        lakers_score == IF is_home THEN g.home_team_score ELSE g.visitor_team_score
        opponent_score == IF is_home THEN g.visitor_team_score ELSE g.home_team_score
        opponent_name == IF is_home THEN g.visitor_team.abbreviation
                         ELSE g.home_team.abbreviation
    IN  [date |-> g.date,
         lakers_score |-> lakers_score,
         opponent_score |-> opponent_score,
         opponent |-> opponent_name,
         point_diff |-> lakers_score - opponent_score,
         location |-> IF is_home THEN "Home" ELSE "Away"]

View(consumer, st, records) == [consumer |-> consumer, st |-> st, records |-> records]

CacheAtRest == UNCHANGED <<_cache, now, call, fetched, threadVars>>

\* mutant of total_wins: a point difference of 0 counts as a win
total_wins_with_ties(point_diffs) ==
    Cardinality({i \in 1..Len(point_diffs) : point_diffs[i] >= 0})

\* sum(1 for diff in point_diffs if diff > 0) (main.py:280)
total_wins(point_diffs) ==
    Cardinality({i \in 1..Len(point_diffs) : point_diffs[i] > 0})

\* len(point_diffs) - total_wins (main.py:281)
total_losses(point_diffs) == Len(point_diffs) - total_wins(point_diffs)

\* what the /team page shows: the charted rows and the win/loss record
TeamView(rows) ==
    [consumer |-> "team", st |-> "charts", records |-> rows,
     total_wins |-> total_wins([i \in 1..Len(rows) |-> rows[i].point_diff]),
     total_losses |-> total_losses([i \in 1..Len(rows) |-> rows[i].point_diff])]

\* the subscripts of the module-level loop (main.py:416-427): a missing key raises
legacy_raises(g) ==
    \/ "date" \notin DOMAIN g
    \/ "home_team" \notin DOMAIN g
    \/ "id" \notin DOMAIN g.home_team
    \/ ~({"home_team_score", "visitor_team_score"} \subseteq DOMAIN g)
    \/ IF g.home_team.id = LAL_TEAM_ID
       THEN "visitor_team" \notin DOMAIN g \/ "abbreviation" \notin DOMAIN g.visitor_team
       ELSE "abbreviation" \notin DOMAIN g.home_team

\* the four lists after the module-level loop (main.py:409-428):
\* dates.append(date) stands in the else branch only
legacy_series(games_sample) ==
    LET n == Len(games_sample)
        is_home(g) == g.home_team.id = LAL_TEAM_ID
        away == SelectSeq(games_sample, LAMBDA g : ~is_home(g))
    IN  [dates |-> [i \in 1..Len(away) |-> away[i].date],
         lakers_scores |-> [i \in 1..n |-> IF is_home(games_sample[i])
                                            THEN games_sample[i].home_team_score
                                            ELSE games_sample[i].visitor_team_score],
         opponent_scores |-> [i \in 1..n |-> IF is_home(games_sample[i])
                                              THEN games_sample[i].visitor_team_score
                                              ELSE games_sample[i].home_team_score],
         opponents |-> [i \in 1..n |-> IF is_home(games_sample[i])
                                        THEN games_sample[i].visitor_team.abbreviation
                                        ELSE games_sample[i].home_team.abbreviation]]

\* create_dash_app (dashboard.py:43-61) charts what get_lakers_games returns
create_dash_app ==
    /\ view' = IF processed_games(games) = <<>>
               THEN View("dash", "no_data", <<>>)
               ELSE View("dash", "charts", processed_games(games))
    /\ UNCHANGED games
    /\ CacheAtRest

\* the /team page (main.py:234-277) charts the list get_team_games returned
get_team_info ==
    /\ view' = IF games = <<>>
               THEN View("team", "no_data", <<>>)
               ELSE IF \E i \in 1..Len(games) : team_row_raises(games[i])
               THEN View("team", "raised", <<>>)
               ELSE TeamView([i \in 1..Len(games) |-> team_row(games[i])])
    /\ UNCHANGED games
    /\ CacheAtRest

\* the import of main.py (main.py:409-445): the loop over games_sample, the
\* list get_team_games returned, builds the series of the /chart figure
module_load ==
    /\ view' = IF \E i \in 1..Len(games) : legacy_raises(games[i])
               THEN View("chart", "raised", <<>>)
               ELSE View("chart", "series", legacy_series(games))
    /\ UNCHANGED games
    /\ CacheAtRest

InitPage ==
    /\ games \in ListsOf(RawGames, MaxGames)
    /\ view = <<>>
    /\ _cache = {} /\ now = 0 /\ call = NoCall /\ fetched = {}
    /\ NoThreads

NextPage ==
    \/ create_dash_app
    \/ get_team_info
    \/ module_load

SpecPage == InitPage /\ [][NextPage]_vars

Charted == view # <<>> /\ view.st = "charts"

\* C18.  Sorted before consumption: the list of game records each consumer
\* charts (the Dash dashboard, from get_lakers_games, and the /team page, from
\* get_team_games) is in ascending order of date, whatever order upstream
\* sent the games in.
C18_SortedBeforeConsumption ==
    Charted => \A i, j \in 1..Len(view.records) :
                   i < j => view.records[i].date <= view.records[j].date

\* C19.  Normalized record invariant: every record get_lakers_games produces
\* from a raw game has point_diff = lakers_score - opponent_score and
\* won = (point_diff > 0); a tied score gives won = False.
C19_RecordInvariant ==
    Charted /\ view.consumer = "dash"
        => \A i \in 1..Len(view.records) :
               LET rec == view.records[i]
               IN  /\ rec.point_diff = rec.lakers_score - rec.opponent_score
                   /\ rec.won = (rec.point_diff > 0)
                   /\ rec.lakers_score = rec.opponent_score => ~rec.won

\* the dashboard got a tie and a win: the tie is not a win
C19_Witness ==
    /\ Charted /\ view.consumer = "dash" /\ Len(view.records) = 2
    /\ \E i, j \in 1..2 :
          /\ view.records[i].point_diff = 0 /\ ~view.records[i].won
          /\ view.records[i].lakers_score = 100
          /\ view.records[j].point_diff = 10 /\ view.records[j].won

\* home and visitor teams and their scores swapped
mirror_key(k) ==
    IF k = "home_team" THEN "visitor_team"
    ELSE IF k = "visitor_team" THEN "home_team"
    ELSE IF k = "home_team_score" THEN "visitor_team_score"
    ELSE IF k = "visitor_team_score" THEN "home_team_score"
    ELSE k

mirror(g) == [k \in {mirror_key(k) : k \in DOMAIN g} |-> g[mirror_key(k)]]

\* a record that has the two teams and the two scores the mirror swaps
HasTeamsAndScores(g) ==
    {"home_team", "visitor_team", "home_team_score", "visitor_team_score"} \subseteq DOMAIN g

\* the normalized fields the claim compares
same_but_location(a, b) ==
    /\ a.lakers_score = b.lakers_score /\ a.opponent_score = b.opponent_score
    /\ a.opponent = b.opponent /\ a.point_diff = b.point_diff
    /\ a.location # b.location

\* both normalizers treat g and its mirror alike but for the location
Symmetric(g) ==
    /\ process_game(g).location = "Home" <=> id_is(get(g, "home_team", EmptyDict), LAKERS_TEAM_ID)
    /\ same_but_location(process_game(g), process_game(mirror(g)))
    /\ process_game(g).won = process_game(mirror(g)).won
    /\ ~team_row_raises(g) /\ ~team_row_raises(mirror(g))
           => /\ team_row(g).location = "Home" <=> g.home_team.id = FIXED_TEAM_ID
              /\ same_but_location(team_row(g), team_row(mirror(g)))

\* exactly one of the two teams of g is the subject team
OneSubjectTeam(g) ==
    id_is(get(g, "home_team", EmptyDict), LAKERS_TEAM_ID)
        # id_is(get(g, "visitor_team", EmptyDict), LAKERS_TEAM_ID)

\* C20 as claimed.  Normalization symmetry: location is Home exactly when the
\* home team's id equals the subject team id, and every raw record and its
\* mirror normalize to the same team score, opponent score, opponent name, won
\* and point difference, with only the location differing.
C20_Symmetry_Original ==
    view # <<>>
        => \A i \in 1..Len(games) : HasTeamsAndScores(games[i]) => Symmetric(games[i])

\* C20 as amended.  Location is Home exactly when the home team's id equals
\* the subject team id; and every raw record in which exactly one of the two
\* teams is the subject team normalizes, with its mirror, to the same team
\* score, opponent score, opponent name, won and point difference, only the
\* location differing.
C20_Symmetry ==
    view # <<>>
        => \A i \in 1..Len(games) :
               /\ process_game(games[i]).location = "Home"
                      <=> id_is(get(games[i], "home_team", EmptyDict), LAKERS_TEAM_ID)
               /\ HasTeamsAndScores(games[i]) /\ OneSubjectTeam(games[i])
                      => Symmetric(games[i])

\* a home game and its mirror were both charted: same scores, Home and Away
C20_Witness ==
    /\ Charted /\ view.consumer = "dash" /\ Len(games) = 2
    /\ games[2] = mirror(games[1]) /\ OneSubjectTeam(games[1])
    /\ games[1].home_team_score # games[1].visitor_team_score
    /\ \E i, j \in 1..2 :
          /\ view.records[i].location = "Home" /\ view.records[j].location = "Away"
          /\ view.records[i].lakers_score = view.records[j].lakers_score
          /\ view.records[i].won = view.records[j].won

\* C21.  Malformed records are defaulted, not fatal: whatever records of the
\* raw list lack fields, each consumer (the dashboard through get_lakers_games,
\* the /team page) gets one normalized record per raw record, in which missing
\* scores are 0, a missing opponent name is "Unknown" and a missing status is
\* empty; no record stops the processing of the others.
C21_MalformedDefaulted ==
    view # <<>> /\ view.consumer \in {"dash", "team"} /\ games # <<>>
        => /\ view.st = "charts"
           /\ Len(view.records) = Len(games)
           /\ \A i \in 1..Len(games) :
                  \E j \in 1..Len(view.records) :
                      LET g == games[i]
                          rec == view.records[j]
                      IN  /\ rec.date = get(g, "date", NoDate)
                          /\ "home_team_score" \notin DOMAIN g
                                 /\ "visitor_team_score" \notin DOMAIN g
                                 => rec.lakers_score = 0 /\ rec.opponent_score = 0
                          /\ "home_team" \notin DOMAIN g /\ "visitor_team" \notin DOMAIN g
                                 => rec.opponent = "Unknown"
                          /\ "status" \notin DOMAIN g /\ view.consumer = "dash"
                                 => rec.status = ""

\* C22.  Pages always render: whatever list upstream and the cache give, the
\* /team handler returns a page and start-up (the import of main.py with its
\* loop over games_sample, and create_dash_app) completes; none of them ends
\* in an unhandled exception.
C22_PagesAlwaysRender ==
    view # <<>> => view.st # "raised"

\* C26.  Legacy chart series are aligned: after the module-level loop over
\* games_sample the lists dates, lakers_scores, opponent_scores and opponents
\* all have the length of games_sample, for every mix of home and away games.
C26_LegacySeriesAligned ==
    view # <<>> /\ view.consumer = "chart" /\ view.st = "series"
        => /\ Len(view.records.dates) = Len(games)
           /\ Len(view.records.lakers_scores) = Len(games)
           /\ Len(view.records.opponent_scores) = Len(games)
           /\ Len(view.records.opponents) = Len(games)

\* C27.  /team win/loss tally: for every non-empty list of games,
\* total_wins + total_losses is the number of games, total_wins is the number
\* of games with lakers_score > opponent_score, and every game with equal
\* scores is among the losses.
C27_WinLossTally ==
    Charted /\ view.consumer = "team"
        => LET rows == view.records
               won == {i \in 1..Len(rows) : rows[i].lakers_score > rows[i].opponent_score}
               tied == {i \in 1..Len(rows) : rows[i].lakers_score = rows[i].opponent_score}
           IN  /\ Len(rows) = Len(games) /\ Len(rows) > 0
               /\ view.total_wins + view.total_losses = Len(rows)
               /\ view.total_wins = Cardinality(won)
               /\ view.total_losses >= Cardinality(tied)
               /\ view.total_losses = Cardinality((1..Len(rows)) \ won)

\* the /team page counted a win and a tie as one win and one loss
C27_Witness ==
    /\ Charted /\ view.consumer = "team" /\ Len(view.records) = 2
    /\ view.records[1].point_diff = 0 /\ view.records[2].point_diff > 0
    /\ view.total_wins = 1 /\ view.total_losses = 1

\* The outcome of a fetcher's invocation, as the cache and upstream made it
FetchOutcome ==
    IF call.outcome = "hit" THEN "fresh hit"
    ELSE IF call.stored THEN "successful refresh"
    ELSE IF call.prev # Absent THEN "stale fallback"
    ELSE "total absence"

ErrorLines == {"Error from balldontlie:", "Error from balldontlie (games):", "Request failed:"}
CacheLines == {"Cache hit for", "Cache stale hit for (fallback)"}

\* the outcome an operator reads off the lines of one invocation
OutcomeInLog(log) ==
    IF \E i \in 1..Len(log) : log[i] \in ErrorLines
    THEN IF log[Len(log)] \in CacheLines THEN "stale fallback" ELSE "total absence"
    ELSE IF log = <<"Cache hit for">> THEN "fresh hit"
    ELSE "successful refresh"

\* C23.  Outcomes are distinguishable in the log: the lines one invocation of
\* get_fixed_team / get_team_games prints tell which of fresh hit, successful
\* refresh, stale fallback and total absence it was, while the caller gets
\* only the value (the stored data, the fetched data or the no-data value) and
\* no freshness flag.
C23_OutcomeInLog ==
    FetchEnded
        => /\ OutcomeInLog(call.log) = FetchOutcome
           /\ \/ call.ret \in {NoData(call.fn), call.prev}
              \/ call.stored /\ call.ret = lookup(call.key).data

\* a get_team_games call answered 500 fell back to the expired entry and said so
C23_Witness ==
    /\ FetchEnded /\ call.fn = "get_team_games" /\ call.outcome = "status"
    /\ call.log = <<"Games status:", "Games URL:", "Error from balldontlie (games):",
                    "Cache stale hit for (fallback)">>
    /\ call.ret = call.prev /\ Truthy(call.ret)

\* C24.  Cached data never regresses: under every interleaving of concurrent
\* get_fixed_team / get_team_games calls for a key, a set_cache for the key
\* stores the value of an upstream answer obtained no earlier than the answer
\* whose value it writes over.
C24_NeverRegresses ==
    \A t \in Callers : threads[t].stored => threads[t].resp_no >= threads[t].replaced

----------------------------------------------------------------------------
\* Several keys.  get_team_games is a function of (team_id, season, per_page):
\* here it is called, next to get_fixed_team and set_cache, for arguments whose
\* digits run into one another, with the clock standing still.

KeyNumbers == {0, 1, 11}
KeyArgs == {<<1, 11, 1>>, <<11, 1, 1>>, <<1, 1, 11>>}
ArgKeys == {games_cache_key(a[1], a[2], a[3]) : a \in KeyArgs}

NextKeys ==
    \/ \E key \in {team_cache_key} \cup ArgKeys : \E data \in Storable(key) :
           set_cache_call(key, data) /\ Alone
    \/ get_fixed_team_start /\ Alone
    \/ \E r \in Responses(TeamData) \cup {TimeoutError} : get_fixed_team_finish(r) /\ Alone
    \/ \E a \in KeyArgs : get_team_games_start(a[1], a[2], a[3]) /\ Alone
    \/ \E r \in Responses(GamesData) \cup {TimeoutError} : get_team_games_finish(r) /\ Alone

SpecKeys == Init /\ [][NextKeys]_vars

\* distinct arguments give distinct games keys, and none of them is the team key
KeysInjective ==
    \A a, b \in KeyNumbers \X KeyNumbers \X KeyNumbers :
        /\ a # b => games_cache_key(a[1], a[2], a[3]) # games_cache_key(b[1], b[2], b[3])
        /\ games_cache_key(a[1], a[2], a[3]) # team_cache_key

\* C25.  Per-key isolation: a get_fixed_team / get_team_games / set_cache
\* operation for key k leaves the entry of every other key as it was; and the
\* key derivation is injective: distinct (team_id, season, per_page) triples of
\* non-negative integers give distinct games keys, none equal to a team key.
C25_PerKeyIsolation ==
    [][/\ \A a \in KeyArgs \cup {<<>>} :
              LET k == IF a = <<>> THEN team_cache_key
                       ELSE games_cache_key(a[1], a[2], a[3])
              IN  Entries(_cache', k) # Entries(_cache, k)
                      => /\ call'.key = k
                         /\ a # <<>> => call'.fn \in {"get_team_games", "set_cache"}
                         /\ \A b \in (KeyArgs \cup {<<>>}) \ {a} :
                                LET j == IF b = <<>> THEN team_cache_key
                                         ELSE games_cache_key(b[1], b[2], b[3])
                                IN  Entries(_cache', j) = Entries(_cache, j)
       /\ KeysInjective]_vars

\* get_team_games stored a list for (1, 11, 1) while the entries of (11, 1, 1),
\* of (1, 1, 11) and of the team hold other data
C25_Witness ==
    /\ call.fn = "get_team_games" /\ call.stored
    /\ call.key = games_cache_key(1, 11, 1)
    /\ \A k \in {team_cache_key} \cup ArgKeys : has(k)
    /\ \A k \in ArgKeys \ {call.key} : lookup(k).data # call.ret
    /\ lookup(games_cache_key(11, 1, 1)).data # lookup(games_cache_key(1, 1, 11)).data

----------------------------------------------------------------------------
\* The requests library ends a wait that has a timeout; nothing makes
\* upstream answer.
LiveSpec ==
    /\ Spec
    /\ WF_vars(get_fixed_team_finish(TimeoutError) /\ Alone)
    /\ WF_vars(get_team_games_finish(TimeoutError) /\ Alone)

====
